---- MODULE Spec2Model ----
(***************************************************************************)
(* Circus no-loss raffle (program "rafa"): the round / epoch lifecycle,    *)
(* the ticket ledger, winner selection and claim / withdrawal settlement.  *)
(*                                                                         *)
(* The on-chain program (programs/rafa/src/lib.rs) is driven only by       *)
(* transactions.  Every instruction is modelled as an operator that maps   *)
(* the accounts before the call to a result [err, w]: the accounts as the  *)
(* handler left them and the error it returned.  The runtime commits the   *)
(* accounts only when the handler returned Ok.                             *)
(*                                                                         *)
(* Time is the cluster clock in milliseconds, lamports are lamports.       *)
(***************************************************************************)
EXTENDS Integers, Sequences, FiniteSets, TLC

\* ------------------------------------------------------------------------
\* Program constants
\* ------------------------------------------------------------------------
TICKET_PRICE_LAMPORTS == 10000000
EPOCH_DURATION_SECONDS == 120
PRIZE_SEED_LAMPORTS == 1000000

CHECK_INTERVAL_MS == 5000
CRANK_THROTTLE_MS == 15000
ROUND_INIT_THROTTLE_MS == 10000
EPOCH_DURATION_MS == EPOCH_DURATION_SECONDS * 1000

\* ------------------------------------------------------------------------
\* Bounds of the model
\* ------------------------------------------------------------------------
\* tickets a round may sell before further deposits are no longer explored
MaxTickets == 2
\* number of clock steps explored
MaxTicks == 7
\* largest seed the clock-derived randomness is drawn from
MaxSeed == 1

\* tickets sold in the rounds select is called on by itself
MaxSelectTickets == 15
\* largest small seed select is called with, next to the seed of the tests
MaxSelectSeed == 16
MaxConcurrent == 3
MaxRound == 2
MaxCycles == 2
\* polling intervals the browser client is followed for
MaxPolls == 8
\* crank submissions of the client that are logged
MaxCranks == 3

\* the clock advances in half epochs
TimeStep == EPOCH_DURATION_MS \div 2

Users == {"A", "B"}
UserOrder == <<"A", "B">>
RoundIds == {1}
NoWinner == "none"
Admin == "admin"

\* deposit amounts tried: one ticket, two tickets, one and a half
Amounts == {TICKET_PRICE_LAMPORTS, 2 * TICKET_PRICE_LAMPORTS,
            TICKET_PRICE_LAMPORTS + (TICKET_PRICE_LAMPORTS \div 2)}
\* withdrawal-request amounts tried
RequestAmounts == {TICKET_PRICE_LAMPORTS}
\* remaining accounts a deposit passes after the round: none, or everyone
DepositBatches == {{}, Users}
Seeds == 0..MaxSeed

\* the seed the tests pass to select_winner_local
TEST_SEED == 123456789
SelectSeeds == (0..MaxSelectSeed) \cup {TEST_SEED}
\* start_epoch is an argument of init_round, taken from the caller's clock:
\* here it is one step ahead of the cluster clock
StartEpoch == TimeStep

VARIABLES
    now,        \* cluster clock, ms
    protocol,   \* ProtocolState
    rounds,     \* RoundState, by round id
    users,      \* UserAccount, by owner
    claims,     \* ClaimTicket, by <<round id, winner>>
    paidIn,     \* lamports each wallet has transferred to the pool
    paidOut,    \* lamports each wallet has received from the pool
    ret,        \* the last transaction: instruction, signer, arguments, result
    sel,        \* a call of select on its own: inputs and returned identity
    pending,    \* deposit transactions submitted together and not yet processed
    assigned,   \* the ticket ranges given to the processed ones, in order
    bot,        \* RaffleBot: its processing flag and the cycles in progress
    hook        \* useAutoCrank in one browser client

vars == <<now, protocol, rounds, users, claims, paidIn, paidOut, ret, sel,
          pending, assigned, bot, hook>>

\* the accounts a transaction reads and writes
World == [protocol |-> protocol, rounds |-> rounds, users |-> users,
          claims |-> claims, paidIn |-> paidIn, paidOut |-> paidOut]

Min(a, b) == IF a < b THEN a ELSE b
SaturatingSub(a, b) == IF a >= b THEN a - b ELSE 0

\* ------------------------------------------------------------------------
\* Account constructors
\* ------------------------------------------------------------------------
NewRound(rid, start, prize) ==
    [roundId |-> rid, epochInRound |-> 1, startEpoch |-> start, endEpoch |-> 0,
     totalStakedLamports |-> 0, totalPrizeLamports |-> prize,
     totalTicketsSold |-> 0, winner |-> NoWinner, winningTicket |-> 0,
     isComplete |-> FALSE, prizeClaimed |-> FALSE]

NoUser ==
    [exists |-> FALSE, balance |-> 0, ticketStart |-> 0, ticketEnd |-> 0,
     snapshotBalances |-> <<0, 0, 0>>,
     snapshotsRecordedMask |-> 0, roundJoined |-> 0,
     pendingWithdrawalAmount |-> 0, pendingWithdrawalRound |-> 0]

NoClaim ==
    [exists |-> FALSE, prizeAmount |-> 0, stakeAmount |-> 0, claimed |-> FALSE]

ClaimKeys == RoundIds \X Users

\* RaffleBot as constructed: not processing, no cycle in progress
NoBot == [isProcessing |-> FALSE, cycles |-> <<>>, event |-> "constructed"]

\* useAutoCrank before its first check
NoHook ==
    [wallet |-> "none", started |-> 0, roundState |-> NewRound(0, 0, 0),
     isProcessing |-> FALSE, uiProcessing |-> FALSE,
     isInitializingRound |-> FALSE,
     lastCrankAttempt |-> 0, lastRoundInitAttempt |-> 0,
     inflight |-> {}, crankLog |-> <<>>]

\* no call of select recorded
NoCall == [seed |-> 0, ticketCount |-> 0, ledger |-> <<>>, called |-> FALSE,
           winner |-> NoWinner]

Ok(w) == [err |-> "Ok", w |-> w]
Fail(e, w) == [err |-> e, w |-> w]

\* ------------------------------------------------------------------------
\* WinnerSelector
\* ------------------------------------------------------------------------
\* the UserAccounts passed as remaining accounts, in the order passed
RECURSIVE BatchOf(_, _, _)
BatchOf(us, order, batch) ==
    IF order = <<>> THEN <<>>
    ELSE LET u == Head(order)
             rest == BatchOf(us, Tail(order), batch)
         IN IF u \in batch /\ us[u].exists
            THEN <<[owner |-> u, ticketStart |-> us[u].ticketStart,
                    ticketEnd |-> us[u].ticketEnd]>> \o rest
            ELSE rest

\* variant: the end of a range is taken as exclusive
RECURSIVE FindOwnerExclusiveEnd(_, _)
FindOwnerExclusiveEnd(ticket, ledger) ==
    IF ledger = <<>> THEN NoWinner
    ELSE LET rec == Head(ledger)
         IN IF ticket >= rec.ticketStart /\ ticket < rec.ticketEnd
            THEN rec.owner
            ELSE FindOwnerExclusiveEnd(ticket, Tail(ledger))

\* first record of the batch whose [ticketStart, ticketEnd] holds the ticket
RECURSIVE FindOwner(_, _)
FindOwner(ticket, ledger) ==
    IF ledger = <<>> THEN NoWinner
    ELSE LET rec == Head(ledger)
         IN IF ticket >= rec.ticketStart /\ ticket <= rec.ticketEnd
            THEN rec.owner
            ELSE FindOwner(ticket, Tail(ledger))

WinningTicket(seed, ticketCount) == seed % ticketCount

select(seed, ticketCount, ledger) ==
    FindOwner(WinningTicket(seed, ticketCount), ledger)

\* ------------------------------------------------------------------------
\* RoundLifecycleManager: the crank recomputation
\* ------------------------------------------------------------------------
\* variant: the epochs passed are taken as the target
TargetEpochNoPlusOne(r, t) ==
    LET elapsed_ms == SaturatingSub(t, r.startEpoch)
        epochs_passed == elapsed_ms \div EPOCH_DURATION_MS
    IN Min(epochs_passed, 3)

\* variant: the target is not capped at 3
TargetEpochUncapped(r, t) ==
    LET elapsed_ms == SaturatingSub(t, r.startEpoch)
        epochs_passed == elapsed_ms \div EPOCH_DURATION_MS
    IN epochs_passed + 1

TargetEpoch(r, t) ==
    LET elapsed_ms == SaturatingSub(t, r.startEpoch)
        epochs_passed == elapsed_ms \div EPOCH_DURATION_MS
    IN Min(epochs_passed + 1, 3)

\* variant: the epoch is set to the target whatever the recorded epoch
AdvanceEpochToTarget(r, t) == [r EXCEPT !.epochInRound = TargetEpoch(r, t)]

\* variant: one epoch per call
AdvanceEpochOneStep(r, t) ==
    IF TargetEpoch(r, t) > r.epochInRound
    THEN [r EXCEPT !.epochInRound = r.epochInRound + 1]
    ELSE r

AdvanceEpoch(r, t) ==
    IF TargetEpoch(r, t) > r.epochInRound
    THEN [r EXCEPT !.epochInRound = TargetEpoch(r, t)]
    ELSE r

\* variant: finalization without waiting for the third epoch to expire
ShouldFinalizeEarly(r, t) ==
    /\ r.epochInRound >= 3
    /\ r.totalTicketsSold > 0

ShouldFinalize(r, t) ==
    /\ r.epochInRound >= 3
    /\ t >= r.startEpoch + 3 * EPOCH_DURATION_MS
    /\ r.totalTicketsSold > 0

\* variant: the raw seed is recorded as the winning ticket
FinalizeRawSeed(r, t, seed, ledger) ==
    LET owner == select(seed, r.totalTicketsSold, ledger)
    IN IF owner = NoWinner THEN r
       ELSE [r EXCEPT !.winner = owner,
                      !.winningTicket = seed,
                      !.isComplete = TRUE,
                      !.endEpoch = t]

\* variant: the round is closed even when no owner is found
FinalizeWithoutOwner(r, t, seed, ledger) ==
    LET owner == select(seed, r.totalTicketsSold, ledger)
    IN [r EXCEPT !.winner = owner,
                 !.winningTicket = WinningTicket(seed, r.totalTicketsSold),
                 !.isComplete = TRUE,
                 !.endEpoch = t]

\* winner selection at round end; without the owner in the batch nothing is set
Finalize(r, t, seed, ledger) ==
    LET owner == select(seed, r.totalTicketsSold, ledger)
    IN IF owner = NoWinner THEN r
       ELSE [r EXCEPT !.winner = owner,
                      !.winningTicket = WinningTicket(seed, r.totalTicketsSold),
                      !.isComplete = TRUE,
                      !.endEpoch = t]

\* variant: a complete round is finalized again
CrankRoundAgain(r, t, seed, ledger) ==
    LET r1 == AdvanceEpoch(r, t)
    IN IF ShouldFinalize(r1, t)
       THEN Finalize(r1, t, seed, ledger)
       ELSE r1

CrankRound(r, t, seed, ledger) ==
    LET r1 == AdvanceEpoch(r, t)
    IN IF ShouldFinalize(r1, t) /\ ~r1.isComplete
       THEN Finalize(r1, t, seed, ledger)
       ELSE r1

\* crank(): permissionless, current round, participants as remaining accounts
CrankTx(w, t, seed, batch) ==
    LET rid == w.protocol.currentRound
        r1 == CrankRound(w.rounds[rid], t, seed, BatchOf(w.users, UserOrder, batch))
    IN Ok([w EXCEPT !.rounds[rid] = r1])

\* select_winner_local(seed), admin only: draws the winner of the current
\* round among the UserAccounts passed
SelectWinnerLocalTx(w, signer, t, seed, batch) ==
    LET rid == w.protocol.currentRound
        r == w.rounds[rid]
    IN IF signer # Admin THEN Fail("AdminOnly", w)
       ELSE IF r.isComplete THEN Fail("RoundComplete", w)
       ELSE IF r.totalTicketsSold = 0 THEN Fail("NoTickets", w)
       ELSE Ok([w EXCEPT !.rounds[rid] =
                   Finalize(r, t, seed, BatchOf(w.users, UserOrder, batch))])

\* init_round(round_id, start_epoch), admin only: creates the RoundState of
\* round_id and makes it the current round; the round's prize budget is the
\* seeded liquidity
InitRoundTx(w, signer, rid, start) ==
    IF signer # Admin THEN Fail("AdminOnly", w)
    ELSE IF rid \in DOMAIN w.rounds THEN Fail("AccountInUse", w)
    ELSE Ok([w EXCEPT
               !.rounds = w.rounds @@
                          (rid :> NewRound(rid, start, w.protocol.prizeSeedAmount)),
               !.claims = w.claims @@ [k \in {rid} \X Users |-> NoClaim],
               !.protocol.currentRound = rid])

\* advance_epoch(), the admin's manual override: the next epoch, up to 3,
\* whatever the time
AdminAdvanceEpochTx(w, signer) ==
    LET rid == w.protocol.currentRound
        r == w.rounds[rid]
    IN IF signer # Admin THEN Fail("AdminOnly", w)
       ELSE IF r.epochInRound >= 3 THEN Fail("InvalidEpoch", w)
       ELSE Ok([w EXCEPT !.rounds[rid].epochInRound = r.epochInRound + 1])

\* variant: the account is closed whatever the unclaimed prizes
CloseProtocolStateTxNoCheck(w, signer) ==
    IF w.protocol.closed THEN Fail("AccountNotInitialized", w)
    ELSE IF signer # Admin THEN Fail("AdminOnly", w)
    ELSE Ok([w EXCEPT !.protocol.closed = TRUE, !.protocol.lamports = 0])

\* close_protocol_state(): the admin closes the ProtocolState account and
\* recovers its lamports, unless prizes are recorded as unclaimed
CloseProtocolStateTx(w, signer) ==
    IF w.protocol.closed THEN Fail("AccountNotInitialized", w)
    ELSE IF signer # Admin THEN Fail("AdminOnly", w)
    ELSE IF w.protocol.totalUnclaimedPrizes > 0 THEN Fail("UnclaimedPrizesExist", w)
    ELSE Ok([w EXCEPT !.protocol.closed = TRUE, !.protocol.lamports = 0])

\* ------------------------------------------------------------------------
\* TicketLedger
\* ------------------------------------------------------------------------
ValidateAmount(amount) ==
    IF amount <= 0 THEN "InvalidAmount"
    ELSE IF amount % TICKET_PRICE_LAMPORTS # 0 THEN "InvalidTicketAmount"
    ELSE "Ok"

\* variant: the epoch is checked before completion
DepositGateEpochFirst(r) ==
    IF ~(r.epochInRound < 3) THEN "DepositsClosedEpoch3"
    ELSE IF r.isComplete THEN "RoundComplete"
    ELSE "Ok"

\* the deposit-eligibility checks, made on the round as the crank left it
DepositGate(r) ==
    IF r.isComplete THEN "RoundComplete"
    ELSE IF ~(r.epochInRound < 3) THEN "DepositsClosedEpoch3"
    ELSE "Ok"

NumTickets(amount) == amount \div TICKET_PRICE_LAMPORTS

\* variant: the count of sold tickets goes up by one per deposit
SellTicketsByOne(r, amount) ==
    [r EXCEPT !.totalTicketsSold = r.totalTicketsSold + 1,
              !.totalStakedLamports = r.totalStakedLamports + amount]

\* the round after selling the tickets of one deposit
SellTickets(r, amount) ==
    [r EXCEPT !.totalTicketsSold = r.totalTicketsSold + NumTickets(amount),
              !.totalStakedLamports = r.totalStakedLamports + amount]

\* variant: ranges numbered from 1
AssignTicketsFromOne(acct, r, amount) ==
    LET ticket_start == r.totalTicketsSold + 1
        ticket_end == ticket_start + NumTickets(amount) - 1
    IN [acct EXCEPT !.exists = TRUE,
                    !.balance = acct.balance + amount,
                    !.ticketStart = ticket_start,
                    !.ticketEnd = ticket_end,
                    !.roundJoined = r.roundId]

\* the depositor's UserAccount (created when absent) with the assigned range
AssignTickets(acct, r, amount) ==
    LET ticket_start == r.totalTicketsSold
        ticket_end == ticket_start + NumTickets(amount) - 1
    IN [acct EXCEPT !.exists = TRUE,
                    !.balance = acct.balance + amount,
                    !.ticketStart = ticket_start,
                    !.ticketEnd = ticket_end,
                    !.roundJoined = r.roundId]

\* variant: eligibility is checked on the round as it was before the crank
DepositTxGateBefore(w, t, u, amount, seed, batch) ==
    LET rid == w.protocol.currentRound
        r1 == CrankRound(w.rounds[rid], t, seed, BatchOf(w.users, UserOrder, batch))
        w1 == [w EXCEPT !.rounds[rid] = r1]
    IN IF ValidateAmount(amount) # "Ok" THEN Fail(ValidateAmount(amount), w)
       ELSE IF DepositGate(w.rounds[rid]) # "Ok"
            THEN Fail(DepositGate(w.rounds[rid]), w1)
       ELSE Ok([w1 EXCEPT
                  !.users[u] = AssignTickets(w.users[u], r1, amount),
                  !.rounds[rid] = SellTickets(r1, amount),
                  !.protocol.lamports = w.protocol.lamports + amount,
                  !.paidIn[u] = w.paidIn[u] + amount])

\* deposit(amount): validation, crank recomputation, eligibility, assignment
DepositTx(w, t, u, amount, seed, batch) ==
    LET rid == w.protocol.currentRound
        r1 == CrankRound(w.rounds[rid], t, seed, BatchOf(w.users, UserOrder, batch))
        w1 == [w EXCEPT !.rounds[rid] = r1]
    IN IF ValidateAmount(amount) # "Ok" THEN Fail(ValidateAmount(amount), w)
       ELSE IF DepositGate(r1) # "Ok" THEN Fail(DepositGate(r1), w1)
       ELSE Ok([w1 EXCEPT
                  !.users[u] = AssignTickets(w.users[u], r1, amount),
                  !.rounds[rid] = SellTickets(r1, amount),
                  !.protocol.lamports = w.protocol.lamports + amount,
                  !.paidIn[u] = w.paidIn[u] + amount])

\* request_withdrawal(amount): moves stake to the pending queue, forfeits
\* the snapshots of the current round; the ticket range stays in the account
RequestWithdrawalTx(w, u, amount) ==
    LET acct == w.users[u]
    IN IF ~acct.exists THEN Fail("AccountNotInitialized", w)
       ELSE IF amount <= 0 \/ amount > acct.balance THEN Fail("InvalidAmount", w)
       ELSE Ok([w EXCEPT
                  !.users[u].balance = acct.balance - amount,
                  !.users[u].pendingWithdrawalAmount =
                        acct.pendingWithdrawalAmount + amount,
                  !.users[u].pendingWithdrawalRound = w.protocol.currentRound,
                  !.users[u].snapshotsRecordedMask = 0])

\* bit of epoch e in snapshots_recorded_mask (bit0 = epoch 1)
EpochBit(e) == 2 ^ (e - 1)

Recorded(acct, e) == (acct.snapshotsRecordedMask \div EpochBit(e)) % 2 = 1

\* variant: the snapshot is written again whether or not it was recorded
TakeSnapshotAgain(acct, e) ==
    [acct EXCEPT !.snapshotBalances[e] = acct.balance,
                 !.snapshotsRecordedMask =
                       IF Recorded(acct, e) THEN @ ELSE @ + EpochBit(e)]

\* the snapshot of one UserAccount for epoch e, written once
TakeSnapshot(acct, e) ==
    IF Recorded(acct, e) THEN acct
    ELSE [acct EXCEPT !.snapshotBalances[e] = acct.balance,
                      !.snapshotsRecordedMask = @ + EpochBit(e)]

\* take_snapshot_batch(): snapshots the UserAccounts passed as remaining
\* accounts for the round's current epoch
TakeSnapshotBatchTx(w, rid, batch) ==
    LET e == w.rounds[rid].epochInRound
    IN Ok([w EXCEPT !.users = [u \in Users |->
                        IF u \in batch /\ w.users[u].exists
                        THEN TakeSnapshot(w.users[u], e)
                        ELSE w.users[u]]])

\* ------------------------------------------------------------------------
\* ClaimSettlement
\* ------------------------------------------------------------------------
\* variant: the signer is not compared with the winner
CreateClaimTxAnyone(w, rid, u) ==
    LET r == w.rounds[rid]
    IN IF ~r.isComplete THEN Fail("RoundNotComplete", w)
       ELSE IF w.claims[<<rid, u>>].exists THEN Fail("ClaimRecordExists", w)
       ELSE Ok([w EXCEPT
                  !.claims[<<rid, u>>] =
                        [exists |-> TRUE,
                         prizeAmount |-> r.totalPrizeLamports,
                         stakeAmount |-> w.users[u].balance,
                         claimed |-> FALSE],
                  !.protocol.totalUnclaimedPrizes =
                        w.protocol.totalUnclaimedPrizes + r.totalPrizeLamports])

\* variant: an existing ClaimTicket is initialized again
CreateClaimTxOverwrite(w, rid, u) ==
    LET r == w.rounds[rid]
    IN IF ~r.isComplete THEN Fail("RoundNotComplete", w)
       ELSE IF r.winner # u THEN Fail("NotWinner", w)
       ELSE Ok([w EXCEPT
                  !.claims[<<rid, u>>] =
                        [exists |-> TRUE,
                         prizeAmount |-> r.totalPrizeLamports,
                         stakeAmount |-> w.users[u].balance,
                         claimed |-> FALSE],
                  !.protocol.totalUnclaimedPrizes =
                        w.protocol.totalUnclaimedPrizes + r.totalPrizeLamports])

\* create_claim_ticket_winner(round_id), signed by u
CreateClaimTx(w, rid, u) ==
    LET r == w.rounds[rid]
    IN IF ~r.isComplete THEN Fail("RoundNotComplete", w)
       ELSE IF r.winner # u THEN Fail("NotWinner", w)
       ELSE IF w.claims[<<rid, u>>].exists THEN Fail("ClaimRecordExists", w)
       ELSE Ok([w EXCEPT
                  !.claims[<<rid, u>>] =
                        [exists |-> TRUE,
                         prizeAmount |-> r.totalPrizeLamports,
                         stakeAmount |-> w.users[u].balance,
                         claimed |-> FALSE],
                  !.protocol.totalUnclaimedPrizes =
                        w.protocol.totalUnclaimedPrizes + r.totalPrizeLamports])

\* variant: the payout leaves out the stake
ClaimPrizeTxPrizeOnly(w, rid, u, owner) ==
    LET ct == w.claims[<<rid, owner>>]
        total_payout == ct.prizeAmount
    IN IF ~ct.exists THEN Fail("AccountNotInitialized", w)
       ELSE IF owner # u THEN Fail("NotWinner", w)
       ELSE IF ct.claimed THEN Fail("AlreadyClaimed", w)
       ELSE IF w.protocol.lamports < total_payout THEN Fail("InsufficientLiquidity", w)
       ELSE Ok([w EXCEPT
                  !.protocol.lamports = w.protocol.lamports - total_payout,
                  !.paidOut[u] = w.paidOut[u] + total_payout,
                  !.claims[<<rid, owner>>].claimed = TRUE,
                  !.protocol.totalUnclaimedPrizes =
                        SaturatingSub(w.protocol.totalUnclaimedPrizes, ct.prizeAmount),
                  !.rounds[rid].prizeClaimed = TRUE])

\* variant: the claimed flag is not consulted
ClaimPrizeTxNoFlagCheck(w, rid, u, owner) ==
    LET ct == w.claims[<<rid, owner>>]
        total_payout == ct.stakeAmount + ct.prizeAmount
    IN IF ~ct.exists THEN Fail("AccountNotInitialized", w)
       ELSE IF owner # u THEN Fail("NotWinner", w)
       ELSE IF w.protocol.lamports < total_payout THEN Fail("InsufficientLiquidity", w)
       ELSE Ok([w EXCEPT
                  !.protocol.lamports = w.protocol.lamports - total_payout,
                  !.paidOut[u] = w.paidOut[u] + total_payout,
                  !.claims[<<rid, owner>>].claimed = TRUE,
                  !.protocol.totalUnclaimedPrizes =
                        SaturatingSub(w.protocol.totalUnclaimedPrizes, ct.prizeAmount),
                  !.rounds[rid].prizeClaimed = TRUE])

\* variant: the prize is marked claimed on the current round
ClaimPrizeTxCurrentRound(w, rid, u, owner) ==
    LET ct == w.claims[<<rid, owner>>]
        total_payout == ct.stakeAmount + ct.prizeAmount
    IN IF ~ct.exists THEN Fail("AccountNotInitialized", w)
       ELSE IF owner # u THEN Fail("NotWinner", w)
       ELSE IF ct.claimed THEN Fail("AlreadyClaimed", w)
       ELSE IF w.protocol.lamports < total_payout THEN Fail("InsufficientLiquidity", w)
       ELSE Ok([w EXCEPT
                  !.protocol.lamports = w.protocol.lamports - total_payout,
                  !.paidOut[u] = w.paidOut[u] + total_payout,
                  !.claims[<<rid, owner>>].claimed = TRUE,
                  !.protocol.totalUnclaimedPrizes =
                        SaturatingSub(w.protocol.totalUnclaimedPrizes, ct.prizeAmount),
                  !.rounds[w.protocol.currentRound].prizeClaimed = TRUE])

\* variant: the signer is not compared with the owner of the ClaimTicket
ClaimPrizeTxNoOwnerCheck(w, rid, u, owner) ==
    LET ct == w.claims[<<rid, owner>>]
        total_payout == ct.stakeAmount + ct.prizeAmount
    IN IF ~ct.exists THEN Fail("AccountNotInitialized", w)
       ELSE IF ct.claimed THEN Fail("AlreadyClaimed", w)
       ELSE IF w.protocol.lamports < total_payout THEN Fail("InsufficientLiquidity", w)
       ELSE Ok([w EXCEPT
                  !.protocol.lamports = w.protocol.lamports - total_payout,
                  !.paidOut[u] = w.paidOut[u] + total_payout,
                  !.claims[<<rid, owner>>].claimed = TRUE,
                  !.protocol.totalUnclaimedPrizes =
                        SaturatingSub(w.protocol.totalUnclaimedPrizes, ct.prizeAmount),
                  !.rounds[rid].prizeClaimed = TRUE])

\* variant: the registry's unclaimed prizes are not reduced by the claim
ClaimPrizeTxKeepsLiability(w, rid, u, owner) ==
    LET ct == w.claims[<<rid, owner>>]
        total_payout == ct.stakeAmount + ct.prizeAmount
    IN IF ~ct.exists THEN Fail("AccountNotInitialized", w)
       ELSE IF owner # u THEN Fail("NotWinner", w)
       ELSE IF ct.claimed THEN Fail("AlreadyClaimed", w)
       ELSE IF w.protocol.lamports < total_payout THEN Fail("InsufficientLiquidity", w)
       ELSE Ok([w EXCEPT
                  !.protocol.lamports = w.protocol.lamports - total_payout,
                  !.paidOut[u] = w.paidOut[u] + total_payout,
                  !.claims[<<rid, owner>>].claimed = TRUE,
                  !.rounds[rid].prizeClaimed = TRUE])

\* claim_prize(round_id), signed by u, on the ClaimTicket of owner
ClaimPrizeTx(w, rid, u, owner) ==
    LET ct == w.claims[<<rid, owner>>]
        total_payout == ct.stakeAmount + ct.prizeAmount
    IN IF ~ct.exists THEN Fail("AccountNotInitialized", w)
       ELSE IF owner # u THEN Fail("NotWinner", w)
       ELSE IF ct.claimed THEN Fail("AlreadyClaimed", w)
       ELSE IF w.protocol.lamports < total_payout THEN Fail("InsufficientLiquidity", w)
       ELSE Ok([w EXCEPT
                  !.protocol.lamports = w.protocol.lamports - total_payout,
                  !.paidOut[u] = w.paidOut[u] + total_payout,
                  !.claims[<<rid, owner>>].claimed = TRUE,
                  !.protocol.totalUnclaimedPrizes =
                        SaturatingSub(w.protocol.totalUnclaimedPrizes, ct.prizeAmount),
                  !.rounds[rid].prizeClaimed = TRUE])

\* settlement zeroes the balance of the participant record that was paid
ZeroBalance(res, u) ==
    IF res.err = "Ok" THEN Ok([res.w EXCEPT !.users[u].balance = 0]) ELSE res

\* variant: the pending amount is paid but stays in the account
ProcessWithdrawalTxKeepsPending(w, rid, u) ==
    LET acct == w.users[u]
        r == w.rounds[rid]
        withdrawal_amount == acct.pendingWithdrawalAmount + acct.balance
    IN IF ~acct.exists THEN Fail("AccountNotInitialized", w)
       ELSE IF acct.roundJoined # rid THEN Fail("ConstraintRaw", w)
       ELSE IF r.winner # NoWinner /\ r.winner = u THEN Fail("WinnerMustClaim", w)
       ELSE IF w.protocol.lamports < withdrawal_amount
            THEN Fail("InsufficientLiquidity", w)
       ELSE Ok([w EXCEPT
                  !.protocol.lamports = w.protocol.lamports - withdrawal_amount,
                  !.paidOut[u] = w.paidOut[u] + withdrawal_amount,
                  !.users[u].balance = 0])

\* variant: the winner is not told apart from the other participants
ProcessWithdrawalTxNoWinnerCheck(w, rid, u) ==
    LET acct == w.users[u]
        r == w.rounds[rid]
        withdrawal_amount == acct.pendingWithdrawalAmount + acct.balance
    IN IF ~acct.exists THEN Fail("AccountNotInitialized", w)
       ELSE IF acct.roundJoined # rid THEN Fail("ConstraintRaw", w)
       ELSE IF w.protocol.lamports < withdrawal_amount
            THEN Fail("InsufficientLiquidity", w)
       ELSE Ok([w EXCEPT
                  !.protocol.lamports = w.protocol.lamports - withdrawal_amount,
                  !.paidOut[u] = w.paidOut[u] + withdrawal_amount,
                  !.users[u].balance = 0,
                  !.users[u].pendingWithdrawalAmount = 0])

\* process_withdrawal(round_id), signed by u
ProcessWithdrawalTx(w, rid, u) ==
    LET acct == w.users[u]
        r == w.rounds[rid]
        withdrawal_amount == acct.pendingWithdrawalAmount + acct.balance
    IN IF ~acct.exists THEN Fail("AccountNotInitialized", w)
       ELSE IF acct.roundJoined # rid THEN Fail("ConstraintRaw", w)
       ELSE IF r.winner # NoWinner /\ r.winner = u THEN Fail("WinnerMustClaim", w)
       ELSE IF w.protocol.lamports < withdrawal_amount
            THEN Fail("InsufficientLiquidity", w)
       ELSE Ok([w EXCEPT
                  !.protocol.lamports = w.protocol.lamports - withdrawal_amount,
                  !.paidOut[u] = w.paidOut[u] + withdrawal_amount,
                  !.users[u].balance = 0,
                  !.users[u].pendingWithdrawalAmount = 0])

\* ------------------------------------------------------------------------
\* The runtime: a transaction's account writes persist only on success
\* ------------------------------------------------------------------------
\* variant: the writes of a failed transaction persist
CommitAlways(res, before) == res.w

Commit(res, before) == IF res.err = "Ok" THEN res.w ELSE before

\* the epoch and completion of the round as the handler left them on return
Seen(r) == [epoch |-> r.epochInRound, complete |-> r.isComplete]

\* every instruction takes the ProtocolState account: once it is closed the
\* runtime rejects the transaction before the handler runs
Load(res, before) ==
    IF before.protocol.closed THEN Fail("AccountNotInitialized", before) ELSE res

ApplyAccounts(res, op, u, target, rid, amount) ==
    LET found == Load(res, World)
        after == Commit(found, World)
    IN /\ protocol' = after.protocol
       /\ rounds' = after.rounds
       /\ users' = after.users
       /\ claims' = after.claims
       /\ paidIn' = after.paidIn
       /\ paidOut' = after.paidOut
       /\ ret' = [op |-> op, user |-> u, target |-> target, round |-> rid,
                  amount |-> amount, err |-> found.err,
                  seen |-> Seen(found.w.rounds[rid]),
                  was |-> rounds[rid].epochInRound]
       /\ UNCHANGED <<now, sel>>

Apply(res, op, u, target, rid, amount) ==
    /\ ApplyAccounts(res, op, u, target, rid, amount)
    /\ UNCHANGED <<pending, assigned, bot, hook>>

\* ------------------------------------------------------------------------
\* Initial state: initialize, seed_prize and init_round(1, start) have run
\* ------------------------------------------------------------------------
Init ==
    /\ now = 0
    /\ rounds = [rid \in RoundIds |-> NewRound(rid, StartEpoch, PRIZE_SEED_LAMPORTS)]
    /\ protocol = [currentRound |-> 1, prizeSeedAmount |-> PRIZE_SEED_LAMPORTS,
                   closed |-> FALSE,
                   totalUnclaimedPrizes |-> 0, lamports |-> PRIZE_SEED_LAMPORTS]
    /\ users = [u \in Users |-> NoUser]
    /\ claims = [k \in ClaimKeys |-> NoClaim]
    /\ paidIn = [u \in Users |-> 0]
    /\ paidOut = [u \in Users |-> 0]
    /\ ret = [op |-> "init_round", user |-> "admin", target |-> "admin",
              round |-> 1, amount |-> 0, err |-> "Ok",
              seen |-> [epoch |-> 1, complete |-> FALSE], was |-> 1]
    /\ sel = NoCall
    /\ pending = {} /\ assigned = <<>>
    /\ bot = NoBot /\ hook = NoHook

\* ------------------------------------------------------------------------
\* Actions: one per instruction, and the clock
\* ------------------------------------------------------------------------
Tick ==
    /\ now + TimeStep <= MaxTicks * TimeStep
    /\ now' = now + TimeStep
    /\ UNCHANGED <<protocol, rounds, users, claims, paidIn, paidOut, ret, sel>>
    /\ UNCHANGED <<pending, assigned, bot, hook>>

Crank ==
    \E seed \in Seeds, batch \in SUBSET Users :
        Apply(CrankTx(World, now, seed, batch), "crank", "anyone", "anyone",
              protocol.currentRound, 0)

Deposit ==
    \E u \in Users, amount \in Amounts, seed \in Seeds, batch \in DepositBatches :
        /\ rounds[protocol.currentRound].totalTicketsSold + NumTickets(amount)
              <= MaxTickets
        /\ Apply(DepositTx(World, now, u, amount, seed, batch), "deposit", u, u,
                 protocol.currentRound, amount)

RequestWithdrawal ==
    \E u \in Users, amount \in RequestAmounts :
        Apply(RequestWithdrawalTx(World, u, amount), "request_withdrawal", u, u,
              protocol.currentRound, amount)

CreateClaimRecord ==
    \E u \in Users, rid \in RoundIds :
        Apply(CreateClaimTx(World, rid, u), "create_claim_ticket", u, u, rid, 0)

ClaimPrize ==
    \E u \in Users, owner \in Users, rid \in RoundIds :
        Apply(ZeroBalance(ClaimPrizeTx(World, rid, u, owner), u),
              "claim_prize", u, owner, rid, 0)

ProcessWithdrawal ==
    \E u \in Users, rid \in RoundIds :
        Apply(ProcessWithdrawalTx(World, rid, u), "process_withdrawal", u, u, rid, 0)

\* ------------------------------------------------------------------------
\* select called on its own: a round of ticketCount tickets of which A bought
\* the first split and B the rest, passed as a batch in either order, with or
\* without each of the two accounts
\* ------------------------------------------------------------------------
RangeRecord(u, first, last) == [owner |-> u, ticketStart |-> first, ticketEnd |-> last]

RECURSIVE KeepPresent(_, _)
KeepPresent(ledger, present) ==
    IF ledger = <<>> THEN <<>>
    ELSE IF Head(ledger).owner \in present
         THEN <<Head(ledger)>> \o KeepPresent(Tail(ledger), present)
         ELSE KeepPresent(Tail(ledger), present)

SplitLedger(ticketCount, split, aFirst) ==
    LET a == IF split > 0 THEN <<RangeRecord("A", 0, split - 1)>> ELSE <<>>
        b == IF split < ticketCount
             THEN <<RangeRecord("B", split, ticketCount - 1)>> ELSE <<>>
    IN IF aFirst THEN a \o b ELSE b \o a

InitSelect ==
    /\ now = 0
    /\ rounds = [rid \in RoundIds |-> NewRound(rid, StartEpoch, PRIZE_SEED_LAMPORTS)]
    /\ protocol = [currentRound |-> 1, prizeSeedAmount |-> PRIZE_SEED_LAMPORTS,
                   closed |-> FALSE,
                   totalUnclaimedPrizes |-> 0, lamports |-> PRIZE_SEED_LAMPORTS]
    /\ users = [u \in Users |-> NoUser]
    /\ claims = [k \in ClaimKeys |-> NoClaim]
    /\ paidIn = [u \in Users |-> 0]
    /\ paidOut = [u \in Users |-> 0]
    /\ ret = [op |-> "init_round", user |-> "admin", target |-> "admin",
              round |-> 1, amount |-> 0, err |-> "Ok",
              seen |-> [epoch |-> 1, complete |-> FALSE], was |-> 1]
    /\ \E seed \in SelectSeeds, ticketCount \in 1..MaxSelectTickets,
          aFirst \in BOOLEAN, present \in SUBSET Users :
          \E split \in 0..ticketCount :
             sel = [seed |-> seed, ticketCount |-> ticketCount,
                    ledger |-> KeepPresent(SplitLedger(ticketCount, split, aFirst),
                                           present),
                    called |-> FALSE, winner |-> NoWinner]
    /\ pending = {} /\ assigned = <<>>
    /\ bot = NoBot /\ hook = NoHook

Select ==
    /\ ~sel.called
    /\ sel' = [sel EXCEPT !.called = TRUE,
                          !.winner = select(sel.seed, sel.ticketCount, sel.ledger)]
    /\ UNCHANGED <<now, protocol, rounds, users, claims, paidIn, paidOut, ret>>
    /\ UNCHANGED <<pending, assigned, bot, hook>>

NextSelect == Select

SpecSelect == InitSelect /\ [][NextSelect]_vars

AdminAdvanceEpoch ==
    \E signer \in {Admin} \cup Users :
        Apply(AdminAdvanceEpochTx(World, signer), "advance_epoch", signer, signer,
              protocol.currentRound, 0)

\* the round under the crank, deposits and the admin's override
NextAdmin ==
    \/ Tick
    \/ Crank
    \/ Deposit
    \/ AdminAdvanceEpoch

SpecAdmin == Init /\ [][NextAdmin]_vars

\* ------------------------------------------------------------------------
\* Deposits submitted together: the runtime locks the accounts a transaction
\* writes, so the deposits of one round are processed one after the other, in
\* an order the senders do not control
\* ------------------------------------------------------------------------
ConcurrentAmounts == {TICKET_PRICE_LAMPORTS, 2 * TICKET_PRICE_LAMPORTS}

\* up to MaxConcurrent deposits are in flight; the round has just entered its
\* second epoch on the clock and is still recorded in its first
InitConcurrent ==
    /\ now = StartEpoch + EPOCH_DURATION_MS
    /\ rounds = [rid \in RoundIds |-> NewRound(rid, StartEpoch, PRIZE_SEED_LAMPORTS)]
    /\ protocol = [currentRound |-> 1, prizeSeedAmount |-> PRIZE_SEED_LAMPORTS,
                   closed |-> FALSE,
                   totalUnclaimedPrizes |-> 0, lamports |-> PRIZE_SEED_LAMPORTS]
    /\ users = [u \in Users |-> NoUser]
    /\ claims = [k \in ClaimKeys |-> NoClaim]
    /\ paidIn = [u \in Users |-> 0]
    /\ paidOut = [u \in Users |-> 0]
    /\ ret = [op |-> "init_round", user |-> "admin", target |-> "admin",
              round |-> 1, amount |-> 0, err |-> "Ok",
              seen |-> [epoch |-> 1, complete |-> FALSE], was |-> 1]
    /\ sel = NoCall
    /\ assigned = <<>>
    /\ bot = NoBot /\ hook = NoHook
    /\ \E n \in 0..MaxConcurrent :
          \E sender \in [1..n -> Users], amount \in [1..n -> ConcurrentAmounts] :
             pending = {[id |-> i, user |-> sender[i], amount |-> amount[i]] :
                           i \in 1..n}

\* the runtime takes one of the deposits in flight and runs it to its end
Serialize ==
    \E d \in pending, seed \in Seeds, batch \in DepositBatches :
        LET res == DepositTx(World, now, d.user, d.amount, seed, batch)
        IN /\ ApplyAccounts(res, "deposit", d.user, d.user,
                            protocol.currentRound, d.amount)
           /\ UNCHANGED <<bot, hook>>
           /\ pending' = pending \ {d}
           /\ assigned' =
                 IF res.err = "Ok"
                 THEN Append(assigned,
                             [id |-> d.id, user |-> d.user,
                              tickets |-> NumTickets(d.amount),
                              ticketStart |-> res.w.users[d.user].ticketStart,
                              ticketEnd |-> res.w.users[d.user].ticketEnd])
                 ELSE assigned

NextConcurrent ==
    \/ Tick
    \/ Serialize

SpecConcurrent == InitConcurrent /\ [][NextConcurrent]_vars

\* ------------------------------------------------------------------------
\* Successive rounds: when a round is complete the next one is initialized,
\* and the records of earlier rounds stay open to their winners
\* ------------------------------------------------------------------------
\* round 1 as two deposits of one ticket and the crank at the end of its
\* third epoch leave it: complete, with A or B as winner
CompletedFirstRound(seed) ==
    LET w0 == [protocol |-> [currentRound |-> 1,
                             prizeSeedAmount |-> PRIZE_SEED_LAMPORTS,
                   closed |-> FALSE,
                             totalUnclaimedPrizes |-> 0,
                             lamports |-> PRIZE_SEED_LAMPORTS],
               rounds |-> [rid \in RoundIds |->
                              NewRound(rid, StartEpoch, PRIZE_SEED_LAMPORTS)],
               users |-> [u \in Users |-> NoUser],
               claims |-> [k \in ClaimKeys |-> NoClaim],
               paidIn |-> [u \in Users |-> 0],
               paidOut |-> [u \in Users |-> 0]]
        w1 == DepositTx(w0, StartEpoch, "A", TICKET_PRICE_LAMPORTS, seed, {}).w
        w2 == DepositTx(w1, StartEpoch, "B", TICKET_PRICE_LAMPORTS, seed, {}).w
    IN CrankTx(w2, StartEpoch + 3 * EPOCH_DURATION_MS, seed, Users).w

InitRounds ==
    /\ now = StartEpoch + 3 * EPOCH_DURATION_MS
    /\ \E seed \in Seeds :
          LET w == CompletedFirstRound(seed)
          IN /\ protocol = w.protocol /\ rounds = w.rounds /\ users = w.users
             /\ claims = w.claims /\ paidIn = w.paidIn /\ paidOut = w.paidOut
             /\ ret = [op |-> "crank", user |-> "anyone", target |-> "anyone",
                       round |-> 1, amount |-> 0, err |-> "Ok",
                       seen |-> Seen(w.rounds[1]), was |-> 1]
    /\ sel = NoCall
    /\ pending = {} /\ assigned = <<>>
    /\ bot = NoBot /\ hook = NoHook

TickEpoch ==
    /\ now + EPOCH_DURATION_MS <= StartEpoch + (MaxTicks - 1) * EPOCH_DURATION_MS
    /\ now' = now + EPOCH_DURATION_MS
    /\ UNCHANGED <<protocol, rounds, users, claims, paidIn, paidOut, ret, sel>>
    /\ UNCHANGED <<pending, assigned, bot, hook>>

InitRound ==
    \E signer \in {Admin} \cup Users :
        /\ rounds[protocol.currentRound].isComplete
        /\ protocol.currentRound + 1 <= MaxRound
        /\ Apply(InitRoundTx(World, signer, protocol.currentRound + 1, now),
                 "init_round", signer, signer, protocol.currentRound,
                 protocol.currentRound + 1)

CreateClaimRecordOfRound ==
    \E u \in Users, rid \in DOMAIN rounds :
        Apply(CreateClaimTx(World, rid, u), "create_claim_ticket", u, u, rid, 0)

ClaimPrizeOfRound ==
    \E u \in Users, owner \in Users, rid \in DOMAIN rounds :
        Apply(ZeroBalance(ClaimPrizeTx(World, rid, u, owner), u),
              "claim_prize", u, owner, rid, 0)

NextRounds ==
    \/ TickEpoch
    \/ Crank
    \/ Deposit
    \/ InitRound
    \/ CreateClaimRecordOfRound
    \/ ClaimPrizeOfRound

SpecRounds == InitRounds /\ [][NextRounds]_vars

\* a crank that passes the UserAccounts of all participants
CrankAll ==
    \E seed \in Seeds :
        Apply(CrankTx(World, now, seed, Users), "crank", "anyone", "anyone",
              protocol.currentRound, 0)

\* ------------------------------------------------------------------------
\* The round under calls that come at irregular times around the epoch
\* boundaries: the clock jumps to any later one of these times
\* ------------------------------------------------------------------------
ElapsedTimes == {0, 1000, EPOCH_DURATION_MS - 1, EPOCH_DURATION_MS,
                 EPOCH_DURATION_MS + 1000,
                 2 * EPOCH_DURATION_MS - 1, 2 * EPOCH_DURATION_MS,
                 3 * EPOCH_DURATION_MS - 1, 3 * EPOCH_DURATION_MS,
                 3 * EPOCH_DURATION_MS + 1000}
ClockTimes == {StartEpoch + e : e \in ElapsedTimes}

TickTo ==
    /\ \E t \in ClockTimes : t > now /\ now' = t
    /\ UNCHANGED <<protocol, rounds, users, claims, paidIn, paidOut, ret, sel>>
    /\ UNCHANGED <<pending, assigned, bot, hook>>

NextClock ==
    \/ TickTo
    \/ Crank
    \/ Deposit

SpecClock == Init /\ [][NextClock]_vars

Next ==
    \/ Tick
    \/ Crank
    \/ Deposit
    \/ RequestWithdrawal
    \/ CreateClaimRecord
    \/ ClaimPrize
    \/ ProcessWithdrawal

Spec == Init /\ [][Next]_vars

\* time passes, and the polling clients keep submitting cranks with all
\* participants
SpecLive == Spec /\ WF_vars(Tick) /\ WF_vars(CrankAll)

\* ------------------------------------------------------------------------
\* The round with the admin's migration call, which closes the ProtocolState
\* account
\* ------------------------------------------------------------------------
CloseProtocolState ==
    \E signer \in {Admin} \cup Users :
        Apply(CloseProtocolStateTx(World, signer), "close_protocol_state", signer,
              signer, protocol.currentRound, 0)

NextClose ==
    \/ Tick
    \/ Crank
    \/ Deposit
    \/ RequestWithdrawal
    \/ CreateClaimRecord
    \/ ClaimPrize
    \/ ProcessWithdrawal
    \/ CloseProtocolState

SpecClose == Init /\ [][NextClose]_vars

\* ------------------------------------------------------------------------
\* The round with the keeper's snapshots: any batch of UserAccounts, at any
\* time, any number of times
\* ------------------------------------------------------------------------
TakeSnapshotBatch ==
    \E batch \in SUBSET Users :
        Apply(TakeSnapshotBatchTx(World, protocol.currentRound, batch),
              "take_snapshot_batch", "anyone", batch, protocol.currentRound, 0)

NextSnapshot ==
    \/ Tick
    \/ Crank
    \/ Deposit
    \/ RequestWithdrawal
    \/ TakeSnapshotBatch

SpecSnapshot == Init /\ [][NextSnapshot]_vars

\* a step of a client that sends no transaction and lets no time pass
ChainUnchanged ==
    UNCHANGED <<now, protocol, rounds, users, claims, paidIn, paidOut, ret, sel>>

\* ------------------------------------------------------------------------
\* useAutoCrank: the trigger condition of checkAndCrank
\* ------------------------------------------------------------------------
\* Math.min(Math.floor(elapsedMs / (EPOCH_DURATION_SECONDS * 1000)) + 1, 3)
HookExpectedEpoch(roundState, currentTime) ==
    LET elapsedMs == currentTime - roundState.startEpoch
        epochsPassed == elapsedMs \div EPOCH_DURATION_MS
    IN Min(epochsPassed + 1, 3)

HookShouldAdvanceEpoch(roundState, currentTime) ==
    HookExpectedEpoch(roundState, currentTime) > roundState.epochInRound

HookShouldFinalize(roundState, currentTime) ==
    LET epoch3EndTime == roundState.startEpoch + 3 * EPOCH_DURATION_MS
    IN /\ roundState.epochInRound >= 3
       /\ currentTime >= epoch3EndTime
       /\ roundState.totalTicketsSold > 0

\* checkAndCrank decides to call the crank
HookShouldCrank(roundState, currentTime) ==
    /\ ~roundState.isComplete
    /\ \/ HookShouldAdvanceEpoch(roundState, currentTime)
       \/ HookShouldFinalize(roundState, currentTime)

\* the UserAccounts callCrank passes: all that joined the current round
CrankBatch(w) ==
    {u \in Users : w.users[u].exists /\ w.users[u].roundJoined = w.protocol.currentRound}

\* ------------------------------------------------------------------------
\* useAutoCrank in one browser client: checkAndCrank runs on the polling
\* interval and whenever the effect is set up again; the transactions it
\* submits, and the deposit the user submits from the page, land later
\* ------------------------------------------------------------------------
\* variant: no minimum time between crank attempts
HookThrottledNever(h, t) == FALSE

\* "wait at least 15 seconds between crank attempts"
HookThrottled(h, t) == t - h.lastCrankAttempt < CRANK_THROTTLE_MS

\* checkAndCrank goes on to initialize the next round
HookWantsInit(h, t) ==
    /\ h.roundState.isComplete /\ ~h.isInitializingRound
    /\ h.wallet # "none"
    /\ t - h.lastRoundInitAttempt > ROUND_INIT_THROTTLE_MS

\* checkAndCrank goes on to call callCrank
HookWantsCrank(h, t) ==
    /\ ~(h.roundState.isComplete /\ ~h.isInitializingRound)
    /\ ~HookThrottled(h, t)
    /\ ~h.isProcessing
    /\ \/ HookShouldAdvanceEpoch(h.roundState, t)
       \/ HookShouldFinalize(h.roundState, t)

\* checkAndCrank up to its first await
CheckAndCrank(h, t) ==
    IF HookWantsInit(h, t)
    THEN [h EXCEPT !.isInitializingRound = TRUE,
                   !.lastRoundInitAttempt = t,
                   !.inflight = @ \cup {"init"}]
    ELSE IF HookWantsCrank(h, t)
    THEN [h EXCEPT !.lastCrankAttempt = t,
                   !.isProcessing = TRUE,
                   !.inflight = @ \cup {"crank"},
                   !.crankLog = Append(@, t)]
    ELSE h

HookUnchangedRest ==
    UNCHANGED <<pending, assigned, bot>>

\* the page has just been opened with a wallet connected: one participant
\* holds a ticket and an epoch of the round is about to end
InitHook ==
    \E wallet \in {Admin, "A"}, phase \in {1, 3}, seed \in Seeds :
        LET w0 == [protocol |-> [currentRound |-> 1,
                                 prizeSeedAmount |-> PRIZE_SEED_LAMPORTS,
                                 closed |-> FALSE,
                                 totalUnclaimedPrizes |-> 0,
                                 lamports |-> PRIZE_SEED_LAMPORTS],
                   rounds |-> [rid \in RoundIds |->
                                  NewRound(rid, StartEpoch, PRIZE_SEED_LAMPORTS)],
                   users |-> [u \in Users |-> NoUser],
                   claims |-> [k \in ClaimKeys |-> NoClaim],
                   paidIn |-> [u \in Users |-> 0],
                   paidOut |-> [u \in Users |-> 0]]
            res == DepositTx(w0, StartEpoch, "B", TICKET_PRICE_LAMPORTS, seed, {})
            t0 == StartEpoch + phase * EPOCH_DURATION_MS - CHECK_INTERVAL_MS
        IN /\ now = t0
           /\ protocol = res.w.protocol
           /\ rounds = res.w.rounds
           /\ users = res.w.users
           /\ claims = res.w.claims
           /\ paidIn = res.w.paidIn
           /\ paidOut = res.w.paidOut
           /\ ret = [op |-> "deposit", user |-> "B", target |-> "B", round |-> 1,
                     amount |-> TICKET_PRICE_LAMPORTS, err |-> res.err,
                     seen |-> Seen(res.w.rounds[1]), was |-> 1]
           /\ sel = NoCall
           /\ pending = {} /\ assigned = <<>>
           /\ bot = NoBot
           /\ hook = [NoHook EXCEPT !.wallet = wallet, !.started = t0,
                                    !.roundState = res.w.rounds[1]]

\* time passes, one polling interval at a time
TickPoll ==
    /\ now + CHECK_INTERVAL_MS <= hook.started + MaxPolls * CHECK_INTERVAL_MS
    /\ now' = now + CHECK_INTERVAL_MS
    /\ UNCHANGED <<protocol, rounds, users, claims, paidIn, paidOut, ret, sel>>
    /\ UNCHANGED <<pending, assigned, bot, hook>>

\* useRaffleState polls the accounts, or refresh() is called
HookRefresh ==
    /\ hook' = [hook EXCEPT !.roundState = rounds[protocol.currentRound]]
    /\ ChainUnchanged
    /\ HookUnchangedRest

\* the interval fires, or the effect runs again and calls checkAndCrank
HookCheck ==
    /\ Len(CheckAndCrank(hook, now).crankLog) <= MaxCranks
    /\ hook' = CheckAndCrank(hook, now)
    /\ ChainUnchanged
    /\ HookUnchangedRest

\* the crank transaction of callCrank is processed, or fails on the way
HookCrankLands ==
    \E seed \in Seeds, ok \in BOOLEAN :
        /\ "crank" \in hook.inflight
        /\ IF ok
           THEN ApplyAccounts(CrankTx(World, now, seed, CrankBatch(World)),
                              "crank", hook.wallet, hook.wallet,
                              protocol.currentRound, 0)
           ELSE ChainUnchanged
        /\ hook' = [hook EXCEPT !.isProcessing = FALSE,
                                !.inflight = @ \ {"crank"}]
        /\ HookUnchangedRest

\* the initRound transaction is processed: on success a timer is set that
\* refreshes the state and clears the flag, on failure the catch block
\* clears the flag
HookInitLands ==
    LET nextRoundId == hook.roundState.roundId + 1
        res == IF nextRoundId <= MaxRound
               THEN InitRoundTx(World, hook.wallet, nextRoundId, now)
               ELSE [err |-> "Unavailable", w |-> World]
        done == Load(res, World)
    IN /\ "init" \in hook.inflight
       /\ ApplyAccounts(res, "init_round", hook.wallet, hook.wallet,
                        protocol.currentRound, nextRoundId)
       /\ hook' = IF done.err = "Ok"
                  THEN [hook EXCEPT !.inflight = (@ \ {"init"}) \cup {"initTimer"}]
                  ELSE [hook EXCEPT !.inflight = @ \ {"init"},
                                    !.isInitializingRound = FALSE]
       /\ HookUnchangedRest

\* the timer set after a successful initRound fires
HookInitDone ==
    /\ "initTimer" \in hook.inflight
    /\ hook' = [hook EXCEPT !.roundState = rounds[protocol.currentRound],
                            !.isInitializingRound = FALSE,
                            !.inflight = @ \ {"initTimer"}]
    /\ ChainUnchanged
    /\ HookUnchangedRest

\* the user confirms a purchase on the page: deposit of the page's own
\* useRaffleTransactions
UiDepositStart ==
    /\ hook.wallet \in Users
    /\ ~hook.uiProcessing
    /\ rounds[protocol.currentRound].totalTicketsSold + 1 <= MaxTickets
    /\ hook' = [hook EXCEPT !.uiProcessing = TRUE, !.inflight = @ \cup {"deposit"}]
    /\ ChainUnchanged
    /\ HookUnchangedRest

UiDepositLands ==
    \E seed \in Seeds :
        /\ "deposit" \in hook.inflight
        /\ ApplyAccounts(DepositTx(World, now, hook.wallet, TICKET_PRICE_LAMPORTS,
                                   seed, {}),
                         "deposit", hook.wallet, hook.wallet,
                         protocol.currentRound, TICKET_PRICE_LAMPORTS)
        /\ hook' = [hook EXCEPT !.uiProcessing = FALSE, !.inflight = @ \ {"deposit"}]
        /\ HookUnchangedRest

NextHook ==
    \/ TickPoll
    \/ HookRefresh
    \/ HookCheck
    \/ HookCrankLands
    \/ HookInitLands
    \/ HookInitDone
    \/ UiDepositStart
    \/ UiDepositLands

SpecHook == InitHook /\ [][NextHook]_vars

\* ------------------------------------------------------------------------
\* RaffleBot: a timer starts checkAndAct; each await of a cycle is a step, and
\* other clients' transactions land between the steps
\* ------------------------------------------------------------------------
\* variant: a cycle starts whether or not another is in progress
CheckAndActEnterNoGuard(b) ==
    [b EXCEPT !.isProcessing = TRUE,
              !.cycles = Append(@, [pc |-> "fetch", round |-> 0]),
              !.event = "started"]

\* checkAndAct up to its first await: the tick is skipped while a cycle is
\* in progress, otherwise the flag is set and the cycle starts
CheckAndActEnter(b) ==
    IF b.isProcessing THEN [b EXCEPT !.event = "skipped"]
    ELSE [b EXCEPT !.isProcessing = TRUE,
                   !.cycles = Append(@, [pc |-> "fetch", round |-> 0]),
                   !.event = "started"]

\* what checkAndAct does next, from the accounts fetched at time t
BotDecide(w, t) ==
    LET currentRound == w.protocol.currentRound
        r == w.rounds[currentRound]
        epochStartTime == r.startEpoch + (r.epochInRound - 1) * EPOCH_DURATION_MS
        timeRemaining == EPOCH_DURATION_MS - (t - epochStartTime)
    IN IF currentRound = 0 THEN "finally"
       ELSE IF r.isComplete THEN "init"
       ELSE IF r.epochInRound < 3
            THEN (IF timeRemaining <= 0 THEN "advance" ELSE "finally")
       ELSE IF r.epochInRound = 3
            THEN (IF timeRemaining <= 0 THEN "snapshot" ELSE "finally")
       ELSE "finally"

\* the finally block of checkAndAct
BotLeave(b, i) ==
    [b EXCEPT !.isProcessing = FALSE,
              !.cycles = SubSeq(@, 1, i - 1) \o SubSeq(@, i + 1, Len(@)),
              !.event = "released"]

BotAt(i, pc) == i \in 1..Len(bot.cycles) /\ bot.cycles[i].pc = pc

BotGoto(i, pc) == bot' = [bot EXCEPT !.cycles[i].pc = pc]

\* setInterval fires
BotTimer ==
    /\ Len(bot.cycles) < MaxCycles
    /\ bot' = CheckAndActEnter(bot)
    /\ ChainUnchanged
    /\ UNCHANGED <<pending, assigned, hook>>

\* the fetch of ProtocolState and RoundState returns, or throws
BotFetch ==
    \E i \in 1..MaxCycles, ok \in BOOLEAN :
        /\ BotAt(i, "fetch")
        /\ bot' = [bot EXCEPT !.cycles[i] =
                      [pc |-> IF ok THEN BotDecide(World, now) ELSE "finally",
                       round |-> protocol.currentRound]]
        /\ ChainUnchanged
        /\ UNCHANGED <<pending, assigned, hook>>

\* advanceEpoch: the error of a failed transaction is caught
BotAdvanceEpoch ==
    \E i \in 1..MaxCycles :
        /\ BotAt(i, "advance")
        /\ ApplyAccounts(AdminAdvanceEpochTx(World, Admin), "advance_epoch", Admin,
                         Admin, protocol.currentRound, 0)
        /\ BotGoto(i, "finally")
        /\ UNCHANGED <<pending, assigned, hook>>

\* takeSnapshot: a failure is thrown on to checkAndAct
BotTakeSnapshot ==
    \E i \in 1..MaxCycles, ok \in BOOLEAN :
        /\ BotAt(i, "snapshot")
        /\ IF ok
           THEN /\ ApplyAccounts(
                      TakeSnapshotBatchTx(World, protocol.currentRound,
                          {u \in Users : users[u].roundJoined = bot.cycles[i].round}),
                      "take_snapshot_batch", "anyone",
                      {u \in Users : users[u].roundJoined = bot.cycles[i].round},
                      protocol.currentRound, 0)
                /\ BotGoto(i, "select")
           ELSE /\ ChainUnchanged
                /\ BotGoto(i, "finally")
        /\ UNCHANGED <<pending, assigned, hook>>

\* selectWinner: the error of a failed transaction is caught
BotSelectWinner ==
    \E i \in 1..MaxCycles, seed \in Seeds :
        /\ BotAt(i, "select")
        /\ ApplyAccounts(
              SelectWinnerLocalTx(World, Admin, now, seed,
                  {u \in Users : users[u].roundJoined = bot.cycles[i].round}),
              "select_winner_local", Admin, Admin, protocol.currentRound, 0)
        /\ BotGoto(i, "finally")
        /\ UNCHANGED <<pending, assigned, hook>>

\* initializeNewRound(currentRound + 1): the error of a failed transaction is
\* caught; rounds beyond MaxRound are not created
BotInitRound ==
    \E i \in 1..MaxCycles :
        /\ BotAt(i, "init")
        /\ IF bot.cycles[i].round + 1 <= MaxRound
           THEN ApplyAccounts(
                    InitRoundTx(World, Admin, bot.cycles[i].round + 1, now),
                    "init_round", Admin, Admin, protocol.currentRound,
                    bot.cycles[i].round + 1)
           ELSE ChainUnchanged
        /\ BotGoto(i, "finally")
        /\ UNCHANGED <<pending, assigned, hook>>

BotFinally ==
    \E i \in 1..MaxCycles :
        /\ BotAt(i, "finally")
        /\ bot' = BotLeave(bot, i)
        /\ ChainUnchanged
        /\ UNCHANGED <<pending, assigned, hook>>

BotStep ==
    \/ BotFetch
    \/ BotAdvanceEpoch
    \/ BotTakeSnapshot
    \/ BotSelectWinner
    \/ BotInitRound
    \/ BotFinally

\* the round under the bot, the permissionless crank and deposits
NextKeeper ==
    \/ Tick
    \/ Crank
    \/ Deposit
    \/ BotTimer
    \/ BotFetch
    \/ BotAdvanceEpoch
    \/ BotTakeSnapshot
    \/ BotSelectWinner
    \/ BotInitRound
    \/ BotFinally

SpecKeeper == Init /\ [][NextKeeper]_vars

\* every await of the bot returns or throws, and the timer keeps firing
SpecKeeperLive == SpecKeeper /\ WF_vars(BotStep) /\ WF_vars(BotTimer)

\* ------------------------------------------------------------------------
\* Properties
\* ------------------------------------------------------------------------
\* the step is a call of instruction op (the clock does not move in a call)
Called(op) == ret'.op = op /\ now' = now /\ vars' # vars

Paid(u) == paidOut'[u] - paidOut[u]

Participants(rid) == {u \in Users : users[u].exists /\ users[u].roundJoined = rid}

\* create_claim_ticket records the winner's balance and the round's whole prize
ClaimRecordsStakeAndPrize ==
    Called("create_claim_ticket") /\ ret'.err = "Ok" =>
        LET u == ret'.user
            rid == ret'.round
        IN /\ rounds[rid].isComplete /\ rounds[rid].winner = u
           /\ claims'[<<rid, u>>].stakeAmount = users[u].balance
           /\ claims'[<<rid, u>>].prizeAmount = rounds[rid].totalPrizeLamports

\* claim_prize pays the recorded stake plus the recorded prize to the winner
ClaimPaysStakeAndPrize ==
    Called("claim_prize") /\ ret'.err = "Ok" =>
        LET u == ret'.user
            rid == ret'.round
            ct == claims[<<rid, u>>]
        IN /\ rounds[rid].winner = u
           /\ Paid(u) = ct.stakeAmount + ct.prizeAmount
           /\ ct.prizeAmount = rounds[rid].totalPrizeLamports
           /\ \A v \in Users \ {u} : Paid(v) = 0

\* process_withdrawal pays a non-winner the whole recorded stake
WithdrawalPaysFullStake ==
    Called("process_withdrawal") /\ ret'.err = "Ok" =>
        LET u == ret'.user
            rid == ret'.round
        IN /\ rounds[rid].winner # u
           /\ Paid(u) = users[u].balance + users[u].pendingWithdrawalAmount
           /\ users'[u].balance = 0 /\ users'[u].pendingWithdrawalAmount = 0
           /\ \A v \in Users \ {u} : Paid(v) = 0

\* after completion the settlement calls are available to those entitled
SettlementAvailable ==
    \A rid \in RoundIds :
        rounds[rid].isComplete =>
            LET wn == rounds[rid].winner
            IN /\ wn \in Users
               /\ ~claims[<<rid, wn>>].exists => CreateClaimTx(World, rid, wn).err = "Ok"
               /\ claims[<<rid, wn>>].exists /\ ~claims[<<rid, wn>>].claimed
                     => ZeroBalance(ClaimPrizeTx(World, rid, wn, wn), wn).err = "Ok"
               /\ \A u \in Participants(rid) \ {wn} :
                     ProcessWithdrawalTx(World, rid, u).err = "Ok"

\* the whole prize of round rid, once u has claimed it
PrizeReceived(u) ==
    IF claims[<<protocol.currentRound, u>>].claimed
    THEN rounds[protocol.currentRound].totalPrizeLamports ELSE 0

\* what a participant paid in is either still recorded for them or paid out,
\* to the lamport for everyone but the winner
NoStakeLost ==
    \A u \in Users :
        LET acct == users[u]
            held == paidOut[u] + acct.balance + acct.pendingWithdrawalAmount
        IN /\ held >= paidIn[u] + PrizeReceived(u)
           /\ rounds[protocol.currentRound].winner # u => held = paidIn[u]

LedgerDisjoint ==
    \A rid \in RoundIds :
        /\ \A u \in Participants(rid) :
              /\ 0 <= users[u].ticketStart
              /\ users[u].ticketStart <= users[u].ticketEnd
              /\ users[u].ticketEnd < rounds[rid].totalTicketsSold
        /\ \A u, v \in Participants(rid) :
              u # v => \/ users[u].ticketEnd < users[v].ticketStart
                       \/ users[v].ticketEnd < users[u].ticketStart

\* a successful deposit takes the next NumTickets(amount) indices
DepositAssignsNextRange ==
    Called("deposit") /\ ret'.err = "Ok" =>
        LET u == ret'.user
            rid == ret'.round
            T == rounds[rid].totalTicketsSold
            n == ret'.amount \div TICKET_PRICE_LAMPORTS
        IN /\ n >= 1
           /\ users'[u].ticketStart = T
           /\ users'[u].ticketEnd = T + n - 1
           /\ rounds'[rid].totalTicketsSold = T + n
           /\ \A v \in Users \ {u} : users'[v] = users[v]

\* C2: a successful deposit of amount a is assigned exactly the range
\* [T, T + a/price - 1], T being totalTicketsSold before the call, and
\* totalTicketsSold becomes T + a/price; the first range starts at 0 and the
\* ranges of a round are contiguous and do not overlap.
C2_DepositRanges ==
    /\ [](LedgerDisjoint /\ (rounds[1].totalTicketsSold = 0 => Participants(1) = {}))
    /\ [][DepositAssignsNextRange]_vars

\* a second depositor holds the range that starts where the first one ends
C2_Witness ==
    /\ ret.op = "deposit" /\ ret.err = "Ok" /\ ret.user = "B"
    /\ users["A"].exists /\ users["A"].ticketStart = 0 /\ users["A"].ticketEnd = 0
    /\ users["B"].ticketStart = 1 /\ users["B"].ticketEnd = 1
    /\ rounds[1].totalTicketsSold = 2

\* the prize payout of a claim record happens with the flip of its flag only
ClaimedOnce ==
    \A k \in ClaimKeys :
        /\ claims[k].claimed => claims'[k].claimed
        /\ Called("claim_prize") /\ ret'.round = k[1] /\ ret'.target = k[2] =>
              IF claims[k].claimed
              THEN /\ ret'.err \in {"AlreadyClaimed", "NotWinner"}
                   /\ ret'.user = k[2] => ret'.err = "AlreadyClaimed"
                   /\ paidOut' = paidOut /\ protocol' = protocol
              ELSE ret'.err = "Ok" =>
                   /\ claims'[k].claimed
                   /\ Paid(k[2]) = claims[k].stakeAmount + claims[k].prizeAmount

\* nobody has received more than their deposits and, with a claimed record,
\* one prize; the pool holds the rest
WinnerPaidOnce ==
    /\ \A u \in Users : paidOut[u] <= paidIn[u] + PrizeReceived(u)
    /\ protocol.lamports =
          protocol.prizeSeedAmount + paidIn["A"] + paidIn["B"]
          - paidOut["A"] - paidOut["B"]
    /\ \A k \in ClaimKeys : claims[k].claimed <=> (rounds[k[1]].prizeClaimed /\ rounds[k[1]].winner = k[2])

\* C3: stake plus prize is transferred at most once per claim record; the first
\* claim_prize of the winner succeeds and sets claimed, every later call fails
\* with AlreadyClaimed and moves no funds.
C3_ClaimAtMostOnce ==
    /\ []WinnerPaidOnce
    /\ [][ClaimedOnce]_vars

\* the winner called claim_prize on an already claimed record and was refused
C3_Witness ==
    /\ ret.op = "claim_prize" /\ ret.err = "AlreadyClaimed"
    /\ claims[<<ret.round, ret.user>>].claimed
    /\ claims[<<ret.round, ret.user>>].stakeAmount > 0
    /\ paidOut[ret.user] =
          claims[<<ret.round, ret.user>>].stakeAmount
          + claims[<<ret.round, ret.user>>].prizeAmount

\* the round goes from not complete to complete in this step
Completes(rid) == ~rounds[rid].isComplete /\ rounds'[rid].isComplete

C5_WinningTicketInRange ==
    \A rid \in RoundIds :
        rounds[rid].isComplete =>
            /\ 0 <= rounds[rid].winningTicket
            /\ rounds[rid].winningTicket < rounds[rid].totalTicketsSold

\* a complete round whose winning ticket is the last one sold
C5_Witness ==
    /\ rounds[1].isComplete
    /\ rounds[1].totalTicketsSold = MaxTickets
    /\ rounds[1].winningTicket = MaxTickets - 1
    /\ rounds[1].winner = "B"

\* the records of the batch whose range holds the ticket
Holders(ticket, ledger) ==
    {i \in 1..Len(ledger) :
        ledger[i].ticketStart <= ticket /\ ticket <= ledger[i].ticketEnd}

\* the ledger of the round in the tests: A holds 0-9, B holds 10-14
TestLedger == <<RangeRecord("A", 0, 9), RangeRecord("B", 10, 14)>>

\* C6: select returns the identity whose range contains seed mod ticketCount,
\* whatever the order of the batch, and nobody when that record is not in the
\* batch; so the winner is a function of (seed, ticketCount, ledger) alone.
\* With seed 123456789 and 15 tickets, A holding 0-9 and B 10-14, the winning
\* ticket is 9 and the winner is A.
C6_SelectIsOwnerOfSeedModCount ==
    sel.called =>
        LET ticket == sel.seed % sel.ticketCount
            holders == Holders(ticket, sel.ledger)
        IN /\ holders = {} => sel.winner = NoWinner
           /\ \A i \in holders : sel.winner = sel.ledger[i].owner
           /\ (sel.seed = TEST_SEED /\ sel.ticketCount = 15 /\ sel.ledger = TestLedger)
                 => ticket = 9 /\ sel.winner = "A"

\* select has been called with the seed and the ledger of the tests
C6_Witness ==
    /\ sel.called
    /\ sel.seed = TEST_SEED /\ sel.ticketCount = 15 /\ sel.ledger = TestLedger
    /\ sel.winner = "A"

\* the accounts are as they were before the step
AccountsUnchanged ==
    UNCHANGED <<protocol, rounds, users, claims, paidIn, paidOut>>

\* the epoch the round is in once the elapsed time is taken into account
EffectiveEpoch(r, t) == IF TargetEpoch(r, t) > r.epochInRound
                        THEN TargetEpoch(r, t) ELSE r.epochInRound

EntryPoints == {"deposit", "crank", "request_withdrawal", "create_claim_ticket",
                "claim_prize", "process_withdrawal"}

C10_FinalizationSavedBeforeError ==
    ret.op = "deposit" /\ ret.err = "RoundComplete" =>
        /\ rounds[ret.round].isComplete
        /\ rounds[ret.round].winner # NoWinner

\* the accounts after a crank with the given inputs at the given time
AfterCrank(w, t, seed, batch) == Commit(CrankTx(w, t, seed, batch), w)

\* C11: a crank repeated at the same time with the same seed and the same
\* batch changes nothing: the accounts after the second call are the accounts
\* after the first; and whatever its seed and batch, a second call at the same
\* time leaves the epoch, and a round the first call completed, as they are.
C11_CrankIdempotent ==
    \A seed \in Seeds, batch \in SUBSET Users :
        LET first == AfterCrank(World, now, seed, batch)
            rid == protocol.currentRound
        IN /\ CrankTx(World, now, seed, batch).err = "Ok"
           /\ AfterCrank(first, now, seed, batch) = first
           /\ \A seed2 \in Seeds, batch2 \in SUBSET Users :
                 LET second == AfterCrank(first, now, seed2, batch2)
                 IN /\ second.rounds[rid].epochInRound = first.rounds[rid].epochInRound
                    /\ first.rounds[rid].isComplete => second = first

\* a crank has just completed the round at the current time, and a crank with
\* another seed at this time would have chosen the other participant
C11_Witness ==
    /\ ret.op = "crank" /\ ret.err = "Ok"
    /\ rounds[ret.round].isComplete
    /\ rounds[ret.round].endEpoch = now
    /\ rounds[ret.round].totalTicketsSold = 2
    /\ users["A"].exists /\ users["B"].exists
    /\ users["A"].ticketStart # users["B"].ticketStart

\* C12: under cranks, deposits and the admin's advance_epoch the epoch of a
\* round never decreases and is always 1, 2 or 3.
C12_EpochMonotone ==
    /\ [](\A rid \in RoundIds : rounds[rid].epochInRound \in {1, 2, 3})
    /\ [][\A rid \in RoundIds :
             rounds'[rid].epochInRound >= rounds[rid].epochInRound]_vars

\* a crank ran on a round that the admin had advanced ahead of the time, with
\* a participant in it
C12_Witness ==
    /\ ret.op = "crank" /\ ret.err = "Ok"
    /\ rounds[ret.round].epochInRound = 3
    /\ TargetEpoch(rounds[ret.round], now) = 1
    /\ rounds[ret.round].totalTicketsSold > 0

ExpectedEpoch(r, t) ==
    LET elapsed == IF t < r.startEpoch THEN 0 ELSE t - r.startEpoch
        passed == elapsed \div (EPOCH_DURATION_SECONDS * 1000)
    IN IF passed + 1 < 3 THEN passed + 1 ELSE 3

Epoch3End(r) == r.startEpoch + 3 * EPOCH_DURATION_MS

\* C15: when no ticket is sold by the time epoch 3 expires, a crank does not
\* finalize the round and it stays open: a deposit of a valid amount that
\* arrives then is accepted (after which the next crank finalizes the round).
C15_EmptyRoundStaysOpenForDeposits ==
    [][\A rid \in RoundIds :
          LET r == rounds[rid]
          IN r.totalTicketsSold = 0 /\ now >= Epoch3End(r) =>
                /\ Called("crank") => ~rounds'[rid].isComplete
                /\ (/\ Called("deposit") /\ ret'.round = rid
                    /\ ValidateAmount(ret'.amount) = "Ok")
                      => /\ ret'.err = "Ok"
                         /\ rounds'[rid].totalTicketsSold > 0]_vars

Owns(w, u, ticket) ==
    /\ w.users[u].exists
    /\ w.users[u].ticketStart <= ticket /\ ticket <= w.users[u].ticketEnd

\* C17: when finalization is due and the record that holds the winning ticket
\* is not in the batch of the call, no winner is recorded and the round is not
\* marked complete; a later call whose batch contains the owner of the ticket
\* it draws finalizes the round with that owner as winner.
C17_OwnerMustBeInBatch ==
    \A seed \in Seeds, batch \in SUBSET Users :
        LET rid == protocol.currentRound
            r == rounds[rid]
            ticket == WinningTicket(seed, r.totalTicketsSold)
            first == AfterCrank(World, now, seed, batch)
        IN (/\ ~r.isComplete /\ r.totalTicketsSold > 0
            /\ now >= Epoch3End(r)
            /\ ~\E u \in batch : Owns(World, u, ticket))
           => /\ first.rounds[rid].winner = NoWinner
              /\ ~first.rounds[rid].isComplete
              /\ first.users = users
              /\ \A seed2 \in Seeds, batch2 \in SUBSET Users,
                    later \in {now, now + TimeStep}, u \in Users :
                    u \in batch2 /\ Owns(first, u, WinningTicket(seed2, r.totalTicketsSold)) =>
                        LET second == AfterCrank(first, later, seed2, batch2)
                        IN /\ second.rounds[rid].isComplete
                           /\ second.rounds[rid].winner = u

\* a crank came after the end of epoch 3 of a round whose two tickets are both
\* in records, and the round is still open: the batch lacked the owner
C17_Witness ==
    /\ ret.op = "crank" /\ ret.err = "Ok"
    /\ now >= Epoch3End(rounds[ret.round])
    /\ rounds[ret.round].totalTicketsSold = 2
    /\ ~rounds[ret.round].isComplete /\ rounds[ret.round].winner = NoWinner
    /\ Owns(World, "A", 0) /\ Owns(World, "B", 1)

\* the ClaimRecords of a round
RecordsOf(rid) == {u \in Users : claims[<<rid, u>>].exists}

\* an existing ClaimRecord stays, with its amounts; a further
\* create_claim_ticket for its (round, winner) fails and changes no account
RecordCreatedOnce ==
    \A k \in ClaimKeys :
        claims[k].exists =>
            /\ claims'[k].exists
            /\ claims'[k].prizeAmount = claims[k].prizeAmount
            /\ claims'[k].stakeAmount = claims[k].stakeAmount
            /\ (/\ Called("create_claim_ticket")
                /\ ret'.round = k[1] /\ ret'.user = k[2])
                  => /\ ret'.err # "Ok"
                     /\ AccountsUnchanged

\* C18: a (round, winner) pair has at most one ClaimRecord: a round has at most
\* one record, that of its winner, and a second createClaimRecord for the pair
\* fails and leaves the first record, and every other account, as it is.
C18_OneClaimRecord ==
    /\ [](\A rid \in RoundIds :
             /\ Cardinality(RecordsOf(rid)) <= 1
             /\ \A u \in RecordsOf(rid) : rounds[rid].winner = u)
    /\ [][RecordCreatedOnce]_vars

\* the winner asked for a second record of the round and was refused
C18_Witness ==
    /\ ret.op = "create_claim_ticket" /\ ret.err = "ClaimRecordExists"
    /\ claims[<<ret.round, ret.user>>].exists
    /\ rounds[ret.round].winner = ret.user
    /\ protocol.totalUnclaimedPrizes <= rounds[ret.round].totalPrizeLamports

\* a record comes into existence in this step
Creates(k) == ~claims[k].exists /\ claims'[k].exists

NonWinnerClaims ==
    Called("claim_prize") /\ rounds[ret'.round].winner # ret'.user

Owed(w, u) == w.users[u].balance + w.users[u].pendingWithdrawalAmount

\* a successful process_withdrawal pays the caller, who is not the recorded
\* winner, the recorded balance plus the pending amount and zeroes both
WithdrawalPaysRecorded ==
    Called("process_withdrawal") /\ ret'.err = "Ok" =>
        LET u == ret'.user
        IN /\ rounds[ret'.round].winner # u
           /\ Paid(u) = Owed(World, u)
           /\ protocol'.lamports = protocol.lamports - Owed(World, u)
           /\ users'[u].balance = 0
           /\ users'[u].pendingWithdrawalAmount = 0
           /\ \A v \in Users \ {u} : Paid(v) = 0 /\ users'[v] = users[v]

\* a process_withdrawal repeated right after a successful one moves nothing
RepeatedWithdrawalPaysNothing ==
    \A u \in Users, rid \in RoundIds :
        LET first == ProcessWithdrawalTx(World, rid, u)
            second == ProcessWithdrawalTx(first.w, rid, u)
        IN first.err = "Ok" =>
              Commit(second, first.w).paidOut = first.w.paidOut
              /\ Commit(second, first.w).protocol = first.w.protocol

RECURSIVE SumTickets(_)
SumTickets(ranges) ==
    IF ranges = <<>> THEN 0 ELSE Head(ranges).tickets + SumTickets(Tail(ranges))

\* the deposits processed so far that were given the ticket
AssignedTo(ticket) ==
    {i \in 1..Len(assigned) :
        assigned[i].ticketStart <= ticket /\ ticket <= assigned[i].ticketEnd}

\* C24: whatever the order in which deposits submitted together are processed,
\* the ranges given to the ones that succeed are sequential (each starts right
\* after the one before, the first at 0) and gap-free, no ticket is given to
\* two deposits, and totalTicketsSold is the sum of their tickets.
C24_ConcurrentDepositsSequential ==
    LET r == rounds[protocol.currentRound]
    IN /\ \A i \in 1..Len(assigned) :
             /\ assigned[i].tickets >= 1
             /\ assigned[i].ticketStart =
                   (IF i = 1 THEN 0 ELSE assigned[i - 1].ticketEnd + 1)
             /\ assigned[i].ticketEnd =
                   assigned[i].ticketStart + assigned[i].tickets - 1
       /\ r.totalTicketsSold = SumTickets(assigned)
       /\ \A ticket \in 0..(r.totalTicketsSold - 1) :
             Cardinality(AssignedTo(ticket)) = 1
       /\ \A i \in 1..Len(assigned) : assigned[i].ticketEnd < r.totalTicketsSold

\* three deposits were in flight; the third was processed first, then the
\* second, and the first came after the start of epoch 3 and was refused
C24_Witness ==
    /\ pending = {} /\ Len(assigned) = 2
    /\ assigned[1].id = 3 /\ assigned[2].id = 2
    /\ assigned[1].tickets = 2 /\ assigned[2].ticketStart = 2
    /\ ret.op = "deposit" /\ ret.err = "DepositsClosedEpoch3"
    /\ rounds[ret.round].totalTicketsSold = 2 + assigned[2].tickets

\* u has a withdrawal request of round rid in the queue
HasRequested(u, rid) ==
    /\ users[u].exists
    /\ users[u].pendingWithdrawalAmount > 0
    /\ users[u].pendingWithdrawalRound = rid

\* C25: an identity that has called requestWithdrawal in a round before its
\* finalization has forfeited its tickets: the finalization of that round does
\* not record it as the winner.
C25_RequesterNeverWins ==
    [][\A rid \in RoundIds, u \in Users :
          Completes(rid) /\ HasRequested(u, rid) => rounds'[rid].winner # u]_vars

\* the records and the state of every round other than rid are as before
OtherRoundsUnchanged(rid) ==
    \A other \in DOMAIN rounds \ {rid} :
        /\ rounds'[other] = rounds[other]
        /\ \A u \in Users : claims'[<<other, u>>] = claims[<<other, u>>]

\* an unclaimed record can be claimed by its winner whatever the current round
\* is: the call is refused only for lack of funds in the pool
ClaimOpenInLaterRounds ==
    \A rid \in DOMAIN rounds, u \in Users :
        claims[<<rid, u>>].exists /\ ~claims[<<rid, u>>].claimed =>
            ClaimPrizeTx(World, rid, u, u).err \in {"Ok", "InsufficientLiquidity"}

RECURSIVE SumPrizes(_, _)
SumPrizes(cl, keys) ==
    IF keys = {} THEN 0
    ELSE LET k == CHOOSE x \in keys : TRUE
         IN cl[k].prizeAmount + SumPrizes(cl, keys \ {k})

\* the prizes of all rounds that ClaimRecords grant, paid or still to pay
PrizesGranted == SumPrizes(claims, {k \in DOMAIN claims : claims[k].exists})

\* C27: the prize of a round comes from seeded liquidity (and proceeds
\* harvested from the round before, of which the program has none), never
\* from the stake deposited in the round: the prizes granted over all rounds
\* never exceed the liquidity seeded.
C27_PrizeNotPaidFromStake == PrizesGranted <= protocol.prizeSeedAmount

\* claim_prize is called by the owner of an unclaimed ClaimRecord while the
\* pool holds less than the record's stake plus prize
ClaimShortfall ==
    /\ Called("claim_prize")
    /\ ret'.user = ret'.target
    /\ <<ret'.round, ret'.user>> \in DOMAIN claims
    /\ LET ct == claims[<<ret'.round, ret'.user>>]
       IN /\ ct.exists /\ ~ct.claimed
          /\ protocol.lamports < ct.stakeAmount + ct.prizeAmount

\* C28: when the liquidity available is less than what the winner is owed,
\* settlement does not fail hard: the claim succeeds and pays the winner what
\* is available, the remainder being deferred to a later settlement.
C28_ShortfallPaysPartially ==
    [][ClaimShortfall =>
          /\ ret'.err = "Ok"
          /\ Paid(ret'.user) = protocol.lamports]_vars

\* C29: close_protocol_state never succeeds while the registry records
\* unclaimed prizes: it changes no account, the registry stays open, and the
\* admin's call fails with UnclaimedPrizesExist.
C29_CloseBlockedByUnclaimedPrizes ==
    [][Called("close_protocol_state") /\ protocol.totalUnclaimedPrizes > 0
          => /\ ret'.err # "Ok"
             /\ AccountsUnchanged
             /\ ~protocol'.closed
             /\ (ret'.user = Admin => ret'.err = "UnclaimedPrizesExist")]_vars

\* the admin's close has just been refused over the unclaimed prize of a
\* ClaimRecord that the winner created and has not claimed
C29_Witness ==
    /\ ret.op = "close_protocol_state"
    /\ ret.user = Admin
    /\ ret.err = "UnclaimedPrizesExist"
    /\ protocol.totalUnclaimedPrizes = PRIZE_SEED_LAMPORTS
    /\ ~protocol.closed
    /\ protocol.lamports > 0
    /\ \E u \in Users : claims[<<1, u>>].exists /\ ~claims[<<1, u>>].claimed

C31_EpochNeverAheadOfClock ==
    \A rid \in DOMAIN rounds :
        rounds[rid].epochInRound <= TargetEpoch(rounds[rid], now)

\* the processing flag is set exactly while one cycle is in progress
OneCycle ==
    /\ Len(bot.cycles) <= 1
    /\ bot.isProcessing <=> Len(bot.cycles) = 1

\* a timer tick that finds a cycle in progress starts nothing
TickSkipped ==
    /\ Len(bot'.cycles) > Len(bot.cycles) => ~bot.isProcessing
    /\ bot.isProcessing /\ bot'.event = "skipped" /\ bot.event # "skipped"
          => bot'.cycles = bot.cycles /\ bot'.isProcessing

\* C39: RaffleBot never runs two checkAndAct cycles at once: a timer tick
\* that fires during a cycle is skipped, and the processing flag is released
\* after every cycle, also one that returns early or throws, so the bot never
\* stays blocked.
C39_OneCycleAndReleased ==
    /\ []OneCycle
    /\ [][TickSkipped]_vars
    /\ (bot.isProcessing ~> ~bot.isProcessing)

\* a tick has just been skipped while the cycle in progress waits for its
\* snapshot transaction
C39_Witness ==
    /\ bot.event = "skipped"
    /\ bot.isProcessing
    /\ Len(bot.cycles) = 1
    /\ bot.cycles[1].pc = "snapshot"

\* the participants whose recorded range holds the ticket
OwnersOf(ticket) == {u \in Users : Owns(World, u, ticket)}

\* C32: every ticket sold in the current round is in the recorded range of
\* exactly one participant, also when an identity deposits more than once:
\* the ranges are pairwise disjoint and cover [0, totalTicketsSold), so a
\* complete batch holds the owner of any winning ticket.
C32_EveryTicketHasOneOwner ==
    \A ticket \in 0..(rounds[protocol.currentRound].totalTicketsSold - 1) :
        Cardinality(OwnersOf(ticket)) = 1

\* the stake the pool owes to the participants, as their accounts record it
StakeOwed(us) == Owed([users |-> us], "A") + Owed([users |-> us], "B")

\* C33: the pool always holds at least the recorded balances and pending
\* withdrawals of all participants plus the unclaimed prize liability, so
\* paying a winner stake + prize never consumes funds owed to others.
C33_PoolCoversStakeAndPrizes ==
    protocol.lamports >= StakeOwed(users) + protocol.totalUnclaimedPrizes

\* the prizes of the ClaimRecords that exist and are not claimed
UnclaimedPrizes(cl) ==
    SumPrizes(cl, {k \in DOMAIN cl : cl[k].exists /\ ~cl[k].claimed})

\* a successful create_claim_ticket adds the record's prize to the registry's
\* liability and a successful claim_prize takes it off; no other step changes it
LiabilitySteps ==
    /\ Called("create_claim_ticket") /\ ret'.err = "Ok" =>
          protocol'.totalUnclaimedPrizes = protocol.totalUnclaimedPrizes
                + claims'[<<ret'.round, ret'.user>>].prizeAmount
    /\ Called("claim_prize") /\ ret'.err = "Ok" =>
          protocol'.totalUnclaimedPrizes = protocol.totalUnclaimedPrizes
                - claims[<<ret'.round, ret'.target>>].prizeAmount
    /\ ~(ret'.err = "Ok" /\ (Called("create_claim_ticket") \/ Called("claim_prize")))
          => protocol'.totalUnclaimedPrizes = protocol.totalUnclaimedPrizes

\* C34: the registry's unclaimed-prize liability always equals the sum of
\* prizeAmount over the existing ClaimRecords that are not claimed: it rises
\* once when a record is created, falls once when it is claimed, and is never
\* negative.
C34_LiabilityIsSumOfUnclaimed ==
    /\ [](/\ protocol.totalUnclaimedPrizes = UnclaimedPrizes(claims)
          /\ protocol.totalUnclaimedPrizes >= 0)
    /\ [][LiabilitySteps]_vars

\* the record of round 1 is claimed, the record of round 2 exists and is not:
\* the liability is the prize of round 2
C34_Witness ==
    /\ 2 \in DOMAIN rounds
    /\ \E u \in Users, v \in Users :
          /\ claims[<<1, u>>].exists /\ claims[<<1, u>>].claimed
          /\ claims[<<2, v>>].exists /\ ~claims[<<2, v>>].claimed
          /\ claims[<<2, v>>].prizeAmount > 0
          /\ protocol.totalUnclaimedPrizes = claims[<<2, v>>].prizeAmount

C37_CranksFifteenSecondsApart ==
    \A i \in 1..(Len(hook.crankLog) - 1) :
        hook.crankLog[i + 1] - hook.crankLog[i] >= CRANK_THROTTLE_MS

\* a second crank was submitted exactly 15 seconds after the first, with
\* polls and a refresh in between
C37_Witness ==
    /\ Len(hook.crankLog) >= 2
    /\ hook.crankLog[2] - hook.crankLog[1] = CRANK_THROTTLE_MS
    /\ hook.lastCrankAttempt = hook.crankLog[2]

\* ------------------------------------------------------------------------
\* C36: useAutoCrank never starts a crank call while a transaction of the
\* same client (a crank, an initRound or a deposit from the page) is still
\* processing
\* ------------------------------------------------------------------------
Processing(h) == h.inflight \cap {"crank", "init", "deposit"}

CrankStarted == Len(hook'.crankLog) > Len(hook.crankLog)

C36_NoCrankWhileProcessing ==
    [][CrankStarted => Processing(hook) = {}]_vars

\* ------------------------------------------------------------------------
\* C38: useAutoCrank submits initRound only when the connected wallet is the
\* protocol admin; with another wallet connected the hook leaves a completed
\* round alone
\* ------------------------------------------------------------------------
C38_InitRoundOnlyByAdmin ==
    /\ "init" \in hook.inflight => hook.wallet = Admin
    /\ hook.lastRoundInitAttempt > 0 => hook.wallet = Admin

====
